---- MODULE Spec2Model ----
(***************************************************************************)
(* triplicata: moves decoded from a smart cube are published on a          *)
(* broadcast channel (cube.rs, move_stream_v2), consumed by the trigger    *)
(* state machine (state_machine.rs), which emits the actions of the        *)
(* matched bind on an unbounded action channel read by main.rs.            *)
(***************************************************************************)
EXTENDS Integers, Sequences, FiniteSets, TLC

\* ------------------------------------------------------------------ bounds
\* config.timeout, in clock ticks (any positive integer in the program)
Timeout == 2
\* moves the move stream publishes in one run of Spec
MaxMoves == 3
\* moves in one published packet in Spec
MaxPacket == 2
\* events of the driver loop kept in the history variable fed
MaxFed == 4
\* moves the move stream publishes in one run of SpecChan, beyond the capacity
BurstExtra == 2
\* moves in one published packet in SpecChan, beyond the capacity
BurstPacketExtra == 1

\* ---------------------------------------------------------------- constants
\* tokio::sync::broadcast::channel::<Move>(10)
ChannelCapacity == 10
\* Option::None of tentative_bind; binds are numbered from 1
None == 0

\* ------------------------------------------------------------------- config
\* the moves of enum Move used by the trigger tables below
Moves == {"U", "R", "F"}

Press(k) == <<"Press", k>>
Release(k) == <<"Release", k>>
Click(k) == <<"Click", k>>

\* struct Bind
Bind(t, a) == [trigger |-> t, actions |-> a]

\* the triggers the tables are built from
TriggerPool == {<<"U">>, <<"U", "R">>, <<"U", "R", "F">>, <<"R", "F">>}

\* the actions given to the bind at index i of a generated table
KeyActions(i) == <<Press(ToString(i)), Release(ToString(i))>>

\* the table of the exact-match scenario: one bind, [U, R] -> [Click(A)]
ClickTable == <<Bind(<<"U", "R">>, <<Click("A")>>)>>

\* every table of one or two binds over the pool, and the Click table
Tables ==
    {<<Bind(t, KeyActions(1))>> : t \in TriggerPool}
    \cup {<<Bind(t1, KeyActions(1)), Bind(t2, KeyActions(2))>> :
              t1 \in TriggerPool, t2 \in TriggerPool}
    \cup {ClickTable}

\* struct Config
Configs == {[timeout |-> Timeout, binds |-> b] : b \in Tables}

\* the tables of SpecChan: a single move, so that the channel's contents are
\* decided by how many moves it holds
ChanMoves == {"U"}
ChanConfigs ==
    {[timeout |-> Timeout, binds |-> <<Bind(<<"U", "U">>, KeyActions(1))>>]}

VARIABLES
    config,          \* StateMachine.config
    current_prefix,  \* StateMachine.current_prefix
    tentative_bind,  \* StateMachine.tentative_bind
    elapsed,         \* ticks since last_move (run)
    recvOff,         \* the recv branch of this select! is disabled (its pattern failed)
    driverPc,        \* the driver task: "select" or "done" (panicked)
    chan,            \* broadcast channel: the retained moves not yet received
    missed,          \* broadcast channel: moves overwritten before the receiver saw them
    streamPc,        \* the move stream task: "running", "ended" or "panicked"
    published,       \* moves sent by the move stream
    actq,            \* the action channel (unbounded mpsc)
    consumerPc,      \* the action receiver: "open" or "dropped"
    fed,             \* history: the moves pushed and the timeouts ("T") taken
    emitted,         \* history: every action sent on the action channel
    lastFire,        \* history: the binds played by the last driver step
    lastPush,        \* history: what the last push_move did
    idle,            \* history: ticks since the last move was received
    lost,            \* history: moves overwritten in the channel in total
    last_move_count, \* move_stream_v2: Option<u8>, the counter of the last move message
    overflow_checks, \* the build: TRUE when u8 subtraction panics on overflow
    lastNotif,       \* history: the last notification and the counter held before it
    decoded,         \* history: what the last notification was decoded to
    device_id,       \* move_stream_v2: the 6 identifier bytes of the device
    cipher,          \* GANCubeVersion2Cipher: device_key and device_iv, once derived
    plain,           \* a buffer given to encrypt
    wire,            \* the buffer returned by encrypt
    back             \* the buffer returned by decrypt

\* the state of the decoder and of the cipher
codecVars == <<last_move_count, overflow_checks, lastNotif, decoded,
               device_id, cipher, plain, wire, back>>

\* the state of the tasks and their channels
taskVars == <<config, current_prefix, tentative_bind, elapsed, recvOff, driverPc,
              chan, missed, streamPc, published, actq, consumerPc,
              fed, emitted, lastFire, lastPush, idle, lost>>

vars == <<taskVars, codecVars>>

\* -------------------------------------------------------------- state machine
\* Vec::starts_with
starts_with(t, p) == Len(p) <= Len(t) /\ SubSeq(t, 1, Len(p)) = p

\* the machine as the methods see it: its fields, the sender tx, whether the
\* action receiver is still there, whether a send has panicked, and the binds
\* played so far in this step
Machine ==
    [binds |-> config.binds,
     current_prefix |-> current_prefix,
     tentative_bind |-> tentative_bind,
     tx |-> actq,
     rxOpen |-> consumerPc = "open",
     ok |-> TRUE,
     fired |-> <<>>]

\* the loop of play_bind, sending the actions last to first
RECURSIVE SendAllReversed(_, _, _)
SendAllReversed(acts, q, open) ==
    IF acts = <<>> THEN [q |-> q, ok |-> TRUE]
    ELSE IF ~open THEN [q |-> q, ok |-> FALSE]
    ELSE SendAllReversed(SubSeq(acts, 1, Len(acts) - 1),
                         Append(q, acts[Len(acts)]), open)

\* the loop of play_bind with the result of send ignored
RECURSIVE SendAllIgnoringErrors(_, _, _)
SendAllIgnoringErrors(acts, q, open) ==
    IF acts = <<>> \/ ~open THEN [q |-> q, ok |-> TRUE]
    ELSE SendAllIgnoringErrors(Tail(acts), Append(q, Head(acts)), open)

\* the loop of play_bind: tx.send(action).expect(..) for each action in order;
\* a send to a channel whose receiver is gone panics
RECURSIVE SendAll(_, _, _)
SendAll(acts, q, open) ==
    IF acts = <<>> THEN [q |-> q, ok |-> TRUE]
    ELSE IF ~open THEN [q |-> q, ok |-> FALSE]
    ELSE SendAll(Tail(acts), Append(q, Head(acts)), open)

\* play_bind; site and pfx only label the history entry
play_bind(s, bind, site, pfx) ==
    LET r == SendAll(s.binds[bind].actions, s.tx, s.rxOpen)
    IN  [s EXCEPT !.tx = r.q,
                  !.ok = r.ok,
                  !.fired = IF r.ok
                            THEN Append(@, [bind |-> bind, prefix |-> pfx, site |-> site])
                            ELSE @]

\* reset without the clearing of tentative_bind
ResetKeepTentative(s, site) ==
    LET p == IF s.tentative_bind # None
             THEN play_bind(s, s.tentative_bind, site, s.current_prefix)
             ELSE s
    IN  IF ~p.ok THEN p
        ELSE [p EXCEPT !.current_prefix = <<>>]

\* reset
reset(s, site) ==
    LET p == IF s.tentative_bind # None
             THEN play_bind(s, s.tentative_bind, site, s.current_prefix)
             ELSE s
    IN  IF ~p.ok THEN p
        ELSE [p EXCEPT !.current_prefix = <<>>, !.tentative_bind = None]

\* the loop of get_tentative_bind, from index i
RECURSIVE FirstExact(_, _, _)
FirstExact(binds, prefix, i) ==
    IF i > Len(binds) THEN None
    ELSE IF binds[i].trigger = prefix THEN i
    ELSE FirstExact(binds, prefix, i + 1)

\* get_tentative_bind
get_tentative_bind(s) == FirstExact(s.binds, s.current_prefix, 1)

\* push_move, lines 55-66: append, then keep the exact match or play the held
\* bind and drain all but the last move
PushMatch(s, m) ==
    LET a == [s EXCEPT !.current_prefix = Append(@, m)]
        g == get_tentative_bind(a)
    IN  IF g # None THEN [a EXCEPT !.tentative_bind = g]
        ELSE LET p == IF a.tentative_bind # None
                      THEN play_bind(a, a.tentative_bind, "overshoot", s.current_prefix)
                      ELSE a
             IN  IF ~p.ok THEN p
                 ELSE [p EXCEPT !.current_prefix =
                           SubSeq(@, Len(@), Len(@))]

\* a scan that keeps the last trigger starting with the prefix
RECURSIVE ScanLast(_, _, _, _, _)
ScanLast(binds, prefix, i, next_tentative, only_one) ==
    IF i > Len(binds) THEN [next_tentative |-> next_tentative, only_one |-> only_one]
    ELSE IF starts_with(binds[i].trigger, prefix)
         THEN ScanLast(binds, prefix, i + 1, i, next_tentative = None)
         ELSE ScanLast(binds, prefix, i + 1, next_tentative, only_one)

\* push_move, lines 68-80: the scan for triggers that start with the prefix
RECURSIVE Scan(_, _, _, _, _)
Scan(binds, prefix, i, next_tentative, only_one) ==
    IF i > Len(binds) THEN [next_tentative |-> next_tentative, only_one |-> only_one]
    ELSE IF starts_with(binds[i].trigger, prefix)
         THEN IF next_tentative = None
              THEN Scan(binds, prefix, i + 1, i, TRUE)
              ELSE Scan(binds, prefix, i + 1, next_tentative, FALSE)
         ELSE Scan(binds, prefix, i + 1, next_tentative, only_one)

\* push_move
push_move(s, m) ==
    LET b == PushMatch(s, m)
        r == Scan(b.binds, b.current_prefix, 1, None, FALSE)
        c == [b EXCEPT !.tentative_bind = r.next_tentative]
    IN  IF ~b.ok THEN b
        ELSE IF r.next_tentative # None /\ r.only_one
             THEN reset(c, "immediate")
             ELSE c

\* ---------------------------------------------------------------- channels
\* broadcast Sender::send with a live receiver: the value is retained; when the
\* channel already holds its capacity, the oldest retained value is released
\* and the receiver has missed it
BroadcastSend(c, m) ==
    IF Len(c.chan) < ChannelCapacity
    THEN [c EXCEPT !.chan = Append(@, m)]
    ELSE [c EXCEPT !.chan = Append(Tail(@), m), !.missed = @ + 1]

\* the for loop of move_stream_v2 over the moves of one packet, oldest first
RECURSIVE SendMoves(_, _)
SendMoves(pkt, c) ==
    IF pkt = <<>> THEN c
    ELSE SendMoves(Tail(pkt), BroadcastSend(c, Head(pkt)))

\* the packets of 1..n moves over the moves in S
Packets(S, n) == UNION {[1..k -> S] : k \in 1..n}

\* the history of driver events, kept up to MaxFed entries
Record(h, e) == IF Len(h) < MaxFed THEN Append(h, e) ELSE h

Min(a, b) == IF a < b THEN a ELSE b

\* last_move is never updated
KeepTimer(el) == el

\* last_move = Instant::now(): no tick has elapsed since last_move
RestartTimer(el) == 0

\* the receiver's recv() is ready: a value, a Lagged error or a Closed error
RecvReady ==
    ~recvOff /\ (chan # <<>> \/ missed > 0 \/ streamPc # "running")

\* the decoder before its first notification and the cipher before it is built
NoNotif == [len |-> 0, type |-> 0, counter |-> 0, codes |-> <<>>, fill |-> 0]
NoDecode == [moves |-> <<>>, panic |-> "none", delta |-> 0]
\* Option::None of last_move_count; counters are 0..255
NoCount == -1
\* the decoder and the cipher at the start, for the builds, device identifiers
\* and buffers given
CodecStart(builds, ids, buffers) ==
    /\ last_move_count = NoCount
    /\ overflow_checks \in builds
    /\ lastNotif = [pkt |-> NoNotif, prior |-> NoCount]
    /\ decoded = NoDecode
    /\ device_id \in ids
    /\ cipher = <<>>
    /\ plain \in buffers
    /\ wire = <<>>
    /\ back = <<>>

\* the tasks alone: no notification is decoded, no buffer is ciphered
CodecIdle == CodecStart({FALSE}, {<<>>}, {<<>>})

\* ------------------------------------------------------------------ actions
TaskInit(cfgs) ==
    /\ config \in cfgs
    /\ current_prefix = <<>>
    /\ tentative_bind = None
    /\ elapsed = 0
    /\ recvOff = FALSE
    /\ driverPc = "select"
    /\ chan = <<>>
    /\ missed = 0
    /\ streamPc = "running"
    /\ published = 0
    /\ actq = <<>>
    /\ consumerPc = "open"
    /\ fed = <<>>
    /\ emitted = <<>>
    /\ lastFire = <<>>
    /\ lastPush = [valid |-> FALSE, shrunk |-> <<>>, reset |-> FALSE]
    /\ idle = 0
    /\ lost = 0

InitWith(cfgs) == TaskInit(cfgs) /\ CodecIdle

Init == InitWith(Configs)

InitChan == InitWith(ChanConfigs)

\* move_stream_v2: one notification decoded into the moves pkt, all published
\* without yielding; a send with no receiver left panics the task
PublishFrom(S, maxPacket, maxTotal) ==
    /\ streamPc = "running"
    /\ \E pkt \in Packets(S, maxPacket) :
        /\ published + Len(pkt) <= maxTotal
        /\ IF driverPc = "done"
           THEN /\ streamPc' = "panicked"
                /\ UNCHANGED <<chan, missed, published, lost>>
           ELSE LET c == SendMoves(pkt, [chan |-> chan, missed |-> 0])
                IN  /\ chan' = c.chan
                    /\ missed' = missed + c.missed
                    /\ lost' = lost + c.missed
                    /\ published' = published + Len(pkt)
                    /\ UNCHANGED streamPc
    /\ UNCHANGED <<config, current_prefix, tentative_bind, elapsed, recvOff,
                   driverPc, actq, consumerPc, fed, emitted, lastFire,
                   lastPush, idle>>
    /\ UNCHANGED codecVars

Publish == PublishFrom(Moves, MaxPacket, MaxMoves)

PublishBurst ==
    PublishFrom(ChanMoves, ChannelCapacity + BurstPacketExtra,
                ChannelCapacity + BurstExtra)

PublishFew == PublishFrom(ChanMoves, MaxPacket, MaxMoves)

\* move_stream_v2: the notification feed ends, the task returns and drops tx
StreamEnd ==
    /\ streamPc = "running"
    /\ streamPc' = "ended"
    /\ UNCHANGED <<config, current_prefix, tentative_bind, elapsed, recvOff,
                   driverPc, chan, missed, published, actq, consumerPc, fed,
                   emitted, lastFire, lastPush, idle, lost>>
    /\ UNCHANGED codecVars

\* run: the branch Ok(m) = self.reciever.recv() => self.push_move(m, &mut tx)
RecvMove ==
    /\ driverPc = "select"
    /\ ~recvOff
    /\ missed = 0
    /\ chan # <<>>
    /\ LET m == Head(chan)
           r == push_move(Machine, m)
           b == PushMatch(Machine, m)
       IN  /\ chan' = Tail(chan)
           /\ actq' = r.tx
           /\ emitted' = emitted \o SubSeq(r.tx, Len(actq) + 1, Len(r.tx))
           /\ lastFire' = r.fired
           /\ IF r.ok
              THEN /\ current_prefix' = r.current_prefix
                   /\ tentative_bind' = r.tentative_bind
                   /\ elapsed' = RestartTimer(elapsed)
                   /\ idle' = 0
                   /\ fed' = Record(fed, m)
                   /\ lastPush' = [valid |-> TRUE,
                                   shrunk |-> b.current_prefix,
                                   reset |-> \E k \in DOMAIN r.fired :
                                                 r.fired[k].site = "immediate"]
                   /\ UNCHANGED driverPc
              ELSE /\ driverPc' = "done"
                   /\ lastPush' = [lastPush EXCEPT !.valid = FALSE]
                   /\ UNCHANGED <<current_prefix, tentative_bind, elapsed, idle, fed>>
    /\ UNCHANGED <<config, recvOff, missed, streamPc, published, consumerPc, lost>>
    /\ UNCHANGED codecVars

\* run: recv() returns Err(Lagged) or Err(Closed); the pattern Ok(m) does not
\* match, so select! disables the branch and waits for the sleep alone
RecvErr ==
    /\ driverPc = "select"
    /\ ~recvOff
    /\ missed > 0 \/ (chan = <<>> /\ streamPc # "running")
    /\ missed' = 0
    /\ recvOff' = TRUE
    /\ UNCHANGED <<config, current_prefix, tentative_bind, elapsed, driverPc,
                   chan, streamPc, published, actq, consumerPc, fed, emitted,
                   lastFire, lastPush, idle, lost>>
    /\ UNCHANGED codecVars

\* run: the branch sleep_until(last_move + timeout) => self.reset(&mut tx)
TimeoutFires ==
    /\ driverPc = "select"
    /\ elapsed >= config.timeout
    /\ LET r == reset(Machine, "timeout")
       IN  /\ actq' = r.tx
           /\ emitted' = emitted \o SubSeq(r.tx, Len(actq) + 1, Len(r.tx))
           /\ lastFire' = r.fired
           /\ lastPush' = [lastPush EXCEPT !.valid = FALSE]
           /\ IF r.ok
              THEN /\ current_prefix' = r.current_prefix
                   /\ tentative_bind' = r.tentative_bind
                   /\ elapsed' = RestartTimer(elapsed)
                   /\ recvOff' = FALSE
                   /\ fed' = Record(fed, "T")
                   /\ UNCHANGED driverPc
              ELSE /\ driverPc' = "done"
                   /\ UNCHANGED <<current_prefix, tentative_bind, elapsed, recvOff, fed>>
    /\ UNCHANGED <<config, chan, missed, streamPc, published, consumerPc, idle, lost>>
    /\ UNCHANGED codecVars

\* a clock tick: time passes only while the driver waits in select! with no
\* branch ready, and not past the deadline of the sleep
Tick ==
    /\ driverPc = "select"
    /\ elapsed < config.timeout
    /\ ~RecvReady
    /\ elapsed' = elapsed + 1
    /\ idle' = Min(idle + 1, config.timeout + 1)
    /\ UNCHANGED <<config, current_prefix, tentative_bind, recvOff, driverPc,
                   chan, missed, streamPc, published, actq, consumerPc, fed,
                   emitted, lastFire, lastPush, lost>>
    /\ UNCHANGED codecVars

\* main: actions.recv().await returns the next action
Consume ==
    /\ consumerPc = "open"
    /\ actq # <<>>
    /\ actq' = Tail(actq)
    /\ UNCHANGED <<config, current_prefix, tentative_bind, elapsed, recvOff,
                   driverPc, chan, missed, streamPc, published, consumerPc,
                   fed, emitted, lastFire, lastPush, idle, lost>>
    /\ UNCHANGED codecVars

\* main: the loop over actions.recv() is left on an error (enigo.key(..)?)
\* and the receiver is dropped
ConsumerDrop ==
    /\ consumerPc = "open"
    /\ consumerPc' = "dropped"
    /\ UNCHANGED <<config, current_prefix, tentative_bind, elapsed, recvOff,
                   driverPc, chan, missed, streamPc, published, actq, fed,
                   emitted, lastFire, lastPush, idle, lost>>
    /\ UNCHANGED codecVars

\* the move stream and the driver while both channels stay open: the action
\* channel is unbounded, so its reader has no effect on the driver
Next == Publish \/ RecvMove \/ TimeoutFires \/ Tick

\* every task, with the ends of both channels
NextChan ==
    \/ PublishBurst
    \/ StreamEnd
    \/ RecvMove
    \/ RecvErr
    \/ TimeoutFires
    \/ Tick
    \/ Consume
    \/ ConsumerDrop

\* every task, with a move stream that publishes at most MaxMoves moves
NextEnd ==
    \/ PublishFew
    \/ StreamEnd
    \/ RecvMove
    \/ RecvErr
    \/ TimeoutFires
    \/ Tick
    \/ Consume
    \/ ConsumerDrop

Spec == Init /\ [][Next]_vars

SpecChan == InitChan /\ [][NextChan]_vars

\* the tokio runtime polls a woken task and fires a timer that is due; time
\* goes on; main keeps reading the action channel while it holds the receiver
FairSpec ==
    /\ InitChan
    /\ [][NextEnd]_vars
    /\ WF_vars(RecvMove)
    /\ WF_vars(RecvErr)
    /\ WF_vars(TimeoutFires)
    /\ WF_vars(Tick)
    /\ WF_vars(Consume)

\* ------------------------------------------------------------------- claims
\* the actions of the bind at index i of the table in use
ActionsOf(i) == config.binds[i].actions

\* the binds whose trigger is exactly p
ExactBinds(p) == {i \in DOMAIN config.binds : config.binds[i].trigger = p}

\* the binds whose trigger starts with p and is longer than p
LongerBinds(p) ==
    {i \in DOMAIN config.binds :
        /\ Len(config.binds[i].trigger) > Len(p)
        /\ SubSeq(config.binds[i].trigger, 1, Len(p)) = p}

\* the lowest index of a non-empty set of binds
Lowest(S) == CHOOSE i \in S : \A j \in S : i <= j

\* the actions of the binds played in f, one after the other
RECURSIVE PlayedActions(_)
PlayedActions(f) ==
    IF f = <<>> THEN <<>>
    ELSE ActionsOf(Head(f).bind) \o PlayedActions(Tail(f))

Idle == current_prefix = <<>> /\ tentative_bind = None

\* the trigger tables of the scenarios
AmbiguityTable ==
    <<Bind(<<"U", "R">>, KeyActions(1)), Bind(<<"U", "R", "F">>, KeyActions(2))>>
OvershootTable ==
    <<Bind(<<"U">>, KeyActions(1)), Bind(<<"R", "F">>, KeyActions(2))>>

\* C1: whenever the actions of a bind are emitted (overshoot branch, immediate
\* reset or timeout reset), the bind's trigger equals the candidate prefix at
\* the moment of confirmation; no bind fires on a proper starting part of its
\* trigger.
C1_FiresOnlyOnFullTrigger ==
    \A k \in DOMAIN lastFire :
        config.binds[lastFire[k].bind].trigger = lastFire[k].prefix

\* C2: when push_move has returned without resetting and some trigger equals
\* the prefix exactly, the tentative bind held is the lowest-index bind whose
\* trigger equals the prefix, whatever the order of the binds.
C2_ExactMatchIsHeld ==
    (lastPush.valid /\ ~lastPush.reset /\ ExactBinds(current_prefix) # {})
        => tentative_bind = Lowest(ExactBinds(current_prefix))

\* C3: with binds [U, R] and [U, R, F], from Idle: after U, R nothing has been
\* emitted; after U, R, F exactly the actions of the [U, R, F] bind have been
\* emitted; after U, R and a timeout exactly the actions of the [U, R] bind.
C3_PrefixAmbiguity ==
    config.binds = AmbiguityTable =>
        /\ fed \in {<<"U">>, <<"U", "R">>} => emitted = <<>>
        /\ fed = <<"U", "R", "F">> => emitted = ActionsOf(2)
        /\ fed = <<"U", "R", "T">> => emitted = ActionsOf(1)

C3_Witness ==
    /\ config.binds = AmbiguityTable
    /\ fed = <<"U", "R", "T">>
    /\ emitted = KeyActions(1)
    /\ Idle

\* C4: with binds [U] and [R, F], from Idle: after U, R the actions of the [U]
\* bind have been emitted once and nothing else, and the prefix is [R]; a
\* following F completes [R, F], whose actions are then emitted.
C4_OvershootRecovery ==
    config.binds = OvershootTable =>
        /\ fed = <<"U", "R">> =>
               emitted = ActionsOf(1) /\ current_prefix = <<"R">>
        /\ fed = <<"U", "R", "F">> =>
               emitted = ActionsOf(1) \o ActionsOf(2)

\* C5: after push_move has appended the move and shrunk the prefix, it runs the
\* reset routine (emitting the matched bind's actions, back to Idle) exactly
\* when the prefix is a complete trigger that no longer trigger starts with;
\* otherwise it does not reset and keeps the prefix.
C5_EarlyConfirmation ==
    lastPush.valid =>
        IF ExactBinds(lastPush.shrunk) # {} /\ LongerBinds(lastPush.shrunk) = {}
        THEN /\ lastPush.reset
             /\ Idle
             /\ lastFire[Len(lastFire)].bind \in ExactBinds(lastPush.shrunk)
        ELSE /\ ~lastPush.reset
             /\ current_prefix = lastPush.shrunk

\* C6: with the single bind [U, R] -> [Click(A)], from Idle: after U, R and a
\* timeout exactly one Click(A) has been emitted in total and the prefix is
\* empty.
C6_ExactMatchFiring ==
    (config.binds = ClickTable /\ fed = <<"U", "R", "T">>)
        => emitted = <<Click("A")>> /\ current_prefix = <<>>

C6_Witness ==
    /\ config.binds = ClickTable
    /\ fed = <<"U", "R", "T">>
    /\ emitted = <<Click("A")>>

\* C7: the timeout branch never runs less than one timeout after the last
\* received move, and after a move time does not pass one timeout of
\* inactivity without the timeout branch running.
C7_TimerRestartsOnMove ==
    /\ [](lastPush.valid => idle <= config.timeout)
    /\ [][TimeoutFires => idle >= config.timeout]_vars

C7_Witness ==
    /\ Len(fed) = 3
    /\ fed[1] # "T" /\ fed[2] # "T" /\ fed[3] = "T"
    /\ idle = config.timeout
    /\ elapsed = 0
    /\ lastFire # <<>>

\* C8: the reset routine, on timeout or inside push_move, appends to the action
\* channel exactly the actions of the tentative bind held, once, in configured
\* order and contiguously, and leaves the machine Idle; invoked in Idle it
\* emits nothing and leaves the machine Idle.
C8_ResetRoutine ==
    [][/\ TimeoutFires =>
            /\ actq' = IF tentative_bind # None
                       THEN actq \o ActionsOf(tentative_bind)
                       ELSE actq
            /\ Idle'
       /\ (RecvMove /\ lastPush'.reset) =>
            /\ lastFire'[Len(lastFire')].site = "immediate"
            /\ actq' = actq \o PlayedActions(lastFire')
            /\ Idle'
      ]_vars

C8_Witness ==
    /\ lastFire # <<>>
    /\ lastFire[1].site = "timeout"
    /\ Len(actq) >= 2
    /\ SubSeq(actq, Len(actq) - 1, Len(actq)) = KeyActions(lastFire[1].bind)
    /\ Idle

\* C9: no published move is discarded from the move channel unreceived unless
\* the move stream task has terminated fatally.
C9_NoMoveLost == lost > 0 => streamPc = "panicked"

\* C10: once the move stream task has ended and the move channel is drained,
\* the driver task eventually terminates.
C10_TerminationPropagates ==
    (streamPc # "running" /\ chan = <<>>) ~> (driverPc = "done")

\* ----------------------------------------------------- the action receiver
\* the tables of SpecDrop: binds that fire on overshoot, at once and on timeout
DropConfigs ==
    {[timeout |-> Timeout, binds |-> b] : b \in {AmbiguityTable, OvershootTable}}

InitDrop == InitWith(DropConfigs)

\* the move stream, the driver and main, whose receiver may be dropped
NextDrop ==
    \/ Publish
    \/ RecvMove
    \/ TimeoutFires
    \/ Tick
    \/ Consume
    \/ ConsumerDrop

SpecDrop == InitDrop /\ [][NextDrop]_vars

\* the binds push_move plays for move m when every send succeeds
WouldPlay(m) == push_move([Machine EXCEPT !.rxOpen = TRUE], m).fired

\* C11: with the action receiver gone, the first driver step that tries to send
\* an action terminates the driver task and sends nothing; no action is ever
\* sent on the closed channel; once terminated the driver processes no move
\* and emits nothing.
C11_UndeliverableIsFatal ==
    [][/\ (consumerPc = "dropped" /\ TimeoutFires /\ tentative_bind # None)
            => driverPc' = "done"
       /\ (consumerPc = "dropped" /\ RecvMove /\ WouldPlay(Head(chan)) # <<>>)
            => driverPc' = "done"
       /\ consumerPc = "dropped" => (emitted' = emitted /\ actq' = actq)
       /\ driverPc = "done" =>
            /\ driverPc' = "done"
            /\ UNCHANGED <<fed, emitted, actq, current_prefix, tentative_bind, chan>>
      ]_vars

C11_Witness ==
    /\ driverPc = "done"
    /\ consumerPc = "dropped"
    /\ tentative_bind # None
    /\ streamPc = "panicked"

\* ------------------------------------------------------------------ decoder
\* the length a buffer must exceed for decrypt and encrypt to accept it, and
\* the width of the two windows they cipher
BlockSize == 16
\* a read of data[bit / 8] past the end of the packet (index out of bounds)
OutOfBounds == -1
CUBE_STATE_MESSAGE == 4
CUBE_BATTERY_STATE_MESSAGE == 9
CUBE_MOVE_MESSAGE == 2

\* const MOVES
MOVES == <<"U", "Up", "R", "Rp", "F", "Fp", "D", "Dp", "L", "Lp", "B", "Bp">>

\* bit n (0 = least significant) of v
BitOf(v, n) == (v \div (2 ^ n)) % 2

\* a decrypted notification is given by its length and the fields packed in
\* it: type in bits [0,4), counter in bits [4,12), code k (k = 0 the newest
\* move) in the 5 bits from 12 + 5k, every bit after the packed codes = fill
CodeAt(pkt, k) == IF k < Len(pkt.codes) THEN pkt.codes[k + 1] ELSE 31 * pkt.fill

PlainBit(pkt, b) ==
    IF b < 4 THEN BitOf(pkt.type, 3 - b)
    ELSE IF b < 12 THEN BitOf(pkt.counter, 11 - b)
    ELSE BitOf(CodeAt(pkt, (b - 12) \div 5), 4 - ((b - 12) % 5))

\* the bytes of the decrypted notification, data[1] the first
PlainBytes(pkt) ==
    [n \in 1..pkt.len |->
        PlainBit(pkt, 8 * (n - 1)) * 128 + PlainBit(pkt, 8 * (n - 1) + 1) * 64
        + PlainBit(pkt, 8 * (n - 1) + 2) * 32 + PlainBit(pkt, 8 * (n - 1) + 3) * 16
        + PlainBit(pkt, 8 * (n - 1) + 4) * 8 + PlainBit(pkt, 8 * (n - 1) + 5) * 4
        + PlainBit(pkt, 8 * (n - 1) + 6) * 2 + PlainBit(pkt, 8 * (n - 1) + 7)]

\* the loop of extract_bits from its iteration i
RECURSIVE ExtractLoop(_, _, _, _, _)
ExtractLoop(data, start, count, i, result) ==
    IF i = count THEN result
    ELSE LET bit == start + i
         IN  IF bit \div 8 >= Len(data) THEN OutOfBounds
             ELSE ExtractLoop(data, start, count, i + 1,
                      result * 2 + BitOf(data[(bit \div 8) + 1], 7 - (bit % 8)))

\* extract_bits
extract_bits(data, start, count) == ExtractLoop(data, start, count, 0, 0)

\* a length check that lets a buffer of exactly one block through
DecryptAcceptsBlock(len) == len >= BlockSize

\* GANCubeVersion2Cipher::decrypt returns Ok: not value.len() <= 16
DecryptOk(len) == len > BlockSize

\* current_move_count - *last on u8: wraps, or panics in a build that checks
\* overflow
Subtract(current, last, checks) ==
    IF current >= last THEN [ok |-> TRUE, value |-> current - last]
    ELSE IF checks THEN [ok |-> FALSE, value |-> 0]
    ELSE [ok |-> TRUE, value |-> current - last + 256]

\* the loop for j in 0..move_count, from its iteration j, with the moves sent
RECURSIVE MoveLoop(_, _, _, _)
MoveLoop(data, move_count, j, sent) ==
    IF j = move_count THEN [moves |-> sent, panic |-> "none"]
    ELSE LET i == (move_count - 1) - j
             move_num == extract_bits(data, 12 + i * 5, 5)
         IN  IF move_num = OutOfBounds THEN [moves |-> sent, panic |-> "bounds"]
             ELSE IF move_num >= Len(MOVES) THEN MoveLoop(data, move_count, j + 1, sent)
             ELSE MoveLoop(data, move_count, j + 1, Append(sent, MOVES[move_num + 1]))

\* the body of while let Some(value) = notificaitons.next().await: the counter
\* held afterwards, the moves sent in order, the panic if any, and the delta
HandleNotification(last, pkt, checks) ==
    LET skip == [last |-> last, moves |-> <<>>, panic |-> "none", delta |-> 0]
    IN  IF ~DecryptOk(pkt.len) THEN skip
        ELSE LET data == PlainBytes(pkt)
                 message_type == extract_bits(data, 0, 4)
                 current_move_count == extract_bits(data, 4, 8)
                 move_count == Subtract(current_move_count, last, checks)
                 r == MoveLoop(data, move_count.value, 0, <<>>)
             IN  IF message_type # CUBE_MOVE_MESSAGE THEN skip
                 ELSE IF last = NoCount
                      THEN [skip EXCEPT !.last = current_move_count]
                 ELSE IF ~move_count.ok
                      THEN [skip EXCEPT !.panic = "overflow"]
                 ELSE [last |-> current_move_count, moves |-> r.moves,
                       panic |-> r.panic, delta |-> move_count.value]

\* the notifications of SpecDecode
PacketLens == {16, 17, 20}
MessageTypes == {CUBE_MOVE_MESSAGE, CUBE_STATE_MESSAGE, CUBE_BATTERY_STATE_MESSAGE}
Counters == {0, 4, 30, 250}
CodeSeqs ==
    {<<0, 2, 4>>, <<11, 12, 5, 31, 3>>, <<0, 1, 2, 3, 4, 5, 6, 7, 8, 9>>}
Notifications ==
    [len : PacketLens, type : MessageTypes, counter : Counters,
     codes : CodeSeqs, fill : {0, 1}]

\* move_stream_v2: one notification is received and handled; decoded.moves are
\* the moves given to tx.send, in order (the channel itself is BroadcastSend)
Notify ==
    /\ streamPc = "running"
    /\ \E pkt \in Notifications :
        \E r \in {HandleNotification(last_move_count, pkt, overflow_checks)} :
            /\ last_move_count' = r.last
            /\ lastNotif' = [pkt |-> pkt, prior |-> last_move_count]
            /\ decoded' = [moves |-> r.moves, panic |-> r.panic, delta |-> r.delta]
            /\ streamPc' = IF r.panic = "none" THEN "running" ELSE "panicked"
    /\ UNCHANGED <<config, current_prefix, tentative_bind, elapsed, recvOff,
                   driverPc, chan, missed, published, actq, consumerPc, fed,
                   emitted, lastFire, lastPush, idle, lost>>
    /\ UNCHANGED <<overflow_checks, device_id, cipher, plain, wire, back>>

InitDecode == TaskInit(ChanConfigs) /\ CodecStart(BOOLEAN, {<<>>}, {<<>>})

NextDecode == Notify

SpecDecode == InitDecode /\ [][NextDecode]_vars

\* the last notification was decrypted
Decrypted == lastNotif.pkt.len > 16

\* the last notification was a move message handled with a prior counter
MoveMessageWithPrior ==
    Decrypted /\ lastNotif.pkt.type = 2 /\ lastNotif.prior # NoCount

\* the moves packed at indices delta-1 down to 0, codes of 12 or more left out
ExpectedMoves(pkt, delta) ==
    LET names == <<"U", "Up", "R", "Rp", "F", "Fp", "D", "Dp", "L", "Lp", "B", "Bp">>
        packed == [j \in 1..delta |-> CodeAt(pkt, delta - j)]
        valid == SelectSeq(packed, LAMBDA c : c <= 11)
    IN  [j \in 1..Len(valid) |-> names[valid[j] + 1]]

\* C12: no notification longer than 16 bytes terminates the move stream task,
\* whatever its content and the prior counter.
C12_NoPacketTerminatesStream == Decrypted => decoded.panic = "none"

\* C13: a notification of 16 bytes or fewer is skipped: no move is published,
\* the stored counter is the one held before it, the task goes on.
C13_ShortPacketSkipped ==
    (lastNotif.pkt # NoNotif /\ lastNotif.pkt.len <= 16) =>
        /\ last_move_count = lastNotif.prior
        /\ decoded.moves = <<>>
        /\ decoded.panic = "none"
        /\ streamPc = "running"

C13_Witness ==
    /\ lastNotif.pkt.len = 16
    /\ lastNotif.pkt.type = 2
    /\ lastNotif.pkt.counter = 30
    /\ lastNotif.prior = 4
    /\ last_move_count = 4

\* C14: a move message received with a prior counter publishes, for
\* delta = (current - prior) mod 256, the moves of the codes at indices
\* delta-1 down to 0 (oldest first), codes of 12 or more left out.
C14_DecodesDeltaMovesOldestFirst ==
    MoveMessageWithPrior =>
        /\ decoded.panic = "none"
        /\ decoded.delta = (lastNotif.pkt.counter - lastNotif.prior) % 256
        /\ decoded.moves = ExpectedMoves(lastNotif.pkt, decoded.delta)

\* C15: the delta is (current - prior) mod 256 with no error; from 250 to 4 it
\* is 10, ten codes are decoded and the stored counter becomes 4.
C15_DeltaWraps ==
    MoveMessageWithPrior =>
        /\ decoded.panic # "overflow"
        /\ decoded.delta = (lastNotif.pkt.counter - lastNotif.prior) % 256
        /\ (lastNotif.prior = 250 /\ lastNotif.pkt.counter = 4) =>
               /\ decoded.panic = "none"
               /\ decoded.delta = 10
               /\ last_move_count = 4

GAN_V2_KEY ==
    <<1, 2, 66, 40, 49, 145, 22, 7, 32, 5, 24, 84, 66, 17, 18, 83>>

GAN_V2_IV ==
    <<17, 3, 50, 40, 33, 1, 118, 39, 32, 149, 120, 20, 50, 18, 2, 67>>

\* an addition carried out in 8 bits
AddU8(a, b) == (a + b) % 256

\* key[idx] as u16 + *byte as u16
AddU16(a, b) == (a + b) % 65536

\* ((c as u16 + byte as u16) % 255) as u8
DeriveByte(c, byte) == (AddU16(c, byte) % 255) % 256

\* the loop over device_key.iter().enumerate() applied to one of the constants
Derive(constant, id) ==
    [idx \in 1..Len(constant) |->
        IF idx <= Len(id) THEN DeriveByte(constant[idx], id[idx]) ELSE constant[idx]]

\* the GANCubeVersion2Cipher built for a device identifier
DeriveCipher(id) ==
    [device_key |-> Derive(GAN_V2_KEY, id), device_iv |-> Derive(GAN_V2_IV, id)]

\* a ^ b on bytes
XorByte(a, b) ==
    ((BitOf(a, 0) + BitOf(b, 0)) % 2) + ((BitOf(a, 1) + BitOf(b, 1)) % 2) * 2
    + ((BitOf(a, 2) + BitOf(b, 2)) % 2) * 4 + ((BitOf(a, 3) + BitOf(b, 3)) % 2) * 8
    + ((BitOf(a, 4) + BitOf(b, 4)) % 2) * 16 + ((BitOf(a, 5) + BitOf(b, 5)) % 2) * 32
    + ((BitOf(a, 6) + BitOf(b, 6)) % 2) * 64 + ((BitOf(a, 7) + BitOf(b, 7)) % 2) * 128

\* block[i] ^= self.device_iv[i] for i in 0..16
XorIv(block, iv) == [i \in 1..BlockSize |-> XorByte(block[i], iv[i])]

\* Aes128 is a permutation of the 16-byte blocks chosen by the key. It is
\* represented by such a permutation: every byte of the result depends on the
\* key and on the bytes of the block up to it, and the bytes are rotated by one.
encrypt_block(key, block) ==
    LET sum[i \in 1..BlockSize] ==
            (block[i] + key[i] + IF i = 1 THEN 0 ELSE sum[i - 1]) % 256
    IN  [i \in 1..BlockSize |-> sum[(i % BlockSize) + 1]]

\* the inverse permutation
decrypt_block(key, block) ==
    LET sum == [i \in 1..BlockSize |-> block[((i + BlockSize - 2) % BlockSize) + 1]]
    IN  [i \in 1..BlockSize |->
            (sum[i] + 512 - key[i] - IF i = 1 THEN 0 ELSE sum[i - 1]) % 256]

\* the 16 bytes of value from offset
Window(value, offset) == [i \in 1..BlockSize |-> value[offset + i]]

\* value[offset + i] = block[i] for i in 0..16
SetWindow(value, offset, block) ==
    [i \in 1..Len(value) |->
        IF i > offset /\ i <= offset + BlockSize THEN block[i - offset] ELSE value[i]]

\* Err(..) of decrypt and encrypt; an Ok result is longer than a block
Bail == <<>>

\* one window deciphered in place
DecryptWindow(c, value, offset) ==
    SetWindow(value, offset,
              XorIv(decrypt_block(c.device_key, Window(value, offset)), c.device_iv))

\* one window enciphered in place
EncryptWindow(c, value, offset) ==
    SetWindow(value, offset,
              encrypt_block(c.device_key, XorIv(Window(value, offset), c.device_iv)))

\* a decrypt that deciphers the first window before the last
DecryptFirstWindowFirst(c, value) ==
    IF Len(value) <= BlockSize THEN Bail
    ELSE DecryptWindow(c, DecryptWindow(c, value, 0), Len(value) - BlockSize)

\* GANCubeVersion2Cipher::decrypt
decrypt(c, value) ==
    IF Len(value) <= BlockSize THEN Bail
    ELSE DecryptWindow(c, DecryptWindow(c, value, Len(value) - BlockSize), 0)

\* GANCubeVersion2Cipher::encrypt
encrypt(c, value) ==
    IF Len(value) <= BlockSize THEN Bail
    ELSE EncryptWindow(c, EncryptWindow(c, value, 0), Len(value) - BlockSize)

\* the device identifiers and the buffers of SpecCipher
DeviceIds ==
    {<<0, 0, 0, 0, 0, 0>>, <<255, 255, 255, 255, 255, 255>>,
     <<1, 2, 3, 4, 5, 6>>, <<254, 253, 189, 215, 222, 110>>}
BufferLens == {16, 17, 24, 31, 32, 40}
Buffer(n, a, b) == [i \in 1..n |-> (a * i + b) % 256]
Buffers == {Buffer(n, p[1], p[2]) : n \in BufferLens, p \in {<<0, 0>>, <<7, 3>>, <<85, 255>>}}

\* move_stream_v2 builds the cipher from the device identifier
DeriveKeys ==
    /\ cipher = <<>>
    /\ cipher' = DeriveCipher(device_id)
    /\ UNCHANGED <<taskVars, last_move_count, overflow_checks, lastNotif, decoded,
                   device_id, plain, wire, back>>

\* encrypt of the buffer
Encrypt ==
    /\ cipher # <<>>
    /\ wire = <<>>
    /\ Len(plain) > BlockSize
    /\ wire' = encrypt(cipher, plain)
    /\ UNCHANGED <<taskVars, last_move_count, overflow_checks, lastNotif, decoded,
                   device_id, cipher, plain, back>>

\* encrypt of a buffer of one block or less
EncryptShort ==
    /\ cipher # <<>>
    /\ back = <<>>
    /\ Len(plain) <= BlockSize
    /\ wire' = encrypt(cipher, plain)
    /\ back' = plain
    /\ UNCHANGED <<taskVars, last_move_count, overflow_checks, lastNotif, decoded,
                   device_id, cipher, plain>>

\* decrypt of what encrypt returned
Decrypt ==
    /\ wire # <<>>
    /\ back = <<>>
    /\ back' = decrypt(cipher, wire)
    /\ UNCHANGED <<taskVars, last_move_count, overflow_checks, lastNotif, decoded,
                   device_id, cipher, plain, wire>>

InitCipher == TaskInit(ChanConfigs) /\ CodecStart({FALSE}, DeviceIds, Buffers)

NextCipher == DeriveKeys \/ Encrypt \/ EncryptShort \/ Decrypt

SpecCipher == InitCipher /\ [][NextCipher]_vars

\* the bytes of a buffer outside its first and its last 16
Interior(value) == {i \in 1..Len(value) : i > 16 /\ i <= Len(value) - 16}

\* C17: for every buffer longer than 16 bytes, the overlapping lengths 17..31
\* included, decrypt(encrypt(b)) = b; encrypt and decrypt leave the bytes
\* outside the first and the last 16 as they were.
C17_DecryptInvertsEncrypt ==
    /\ (wire # <<>>) =>
            /\ Len(wire) = Len(plain)
            /\ \A i \in Interior(plain) : wire[i] = plain[i]
    /\ (wire # <<>> /\ back # <<>>) =>
            /\ back = plain
            /\ \A i \in Interior(wire) : back[i] = wire[i]

C17_Witness ==
    /\ Len(plain) = 17
    /\ wire # <<>>
    /\ wire # plain
    /\ back = plain

\* C19: the key and the IV are a function of the device identifier alone:
\* bytes 0..5 are (constant[i] + id[i]) mod 255, computed without 8-bit
\* overflow, bytes 6..15 are the constants'.
C19_KeyDerivation ==
    (cipher # <<>>) =>
        \A i \in 1..16 :
            /\ cipher.device_key[i] =
                   IF i <= 6 THEN (GAN_V2_KEY[i] + device_id[i]) % 255 ELSE GAN_V2_KEY[i]
            /\ cipher.device_iv[i] =
                   IF i <= 6 THEN (GAN_V2_IV[i] + device_id[i]) % 255 ELSE GAN_V2_IV[i]

C19_Witness ==
    /\ cipher # <<>>
    /\ device_id[6] = 255
    /\ cipher.device_key[6] = 145
    /\ cipher.device_iv[6] = 1

\* ---------------------------------------------------------- shared prefixes
\* two binds whose triggers share a starting sequence that is not a trigger
SharedMoves == {"U", "R", "F", "D"}
SharedTable ==
    <<Bind(<<"U", "R", "F">>, KeyActions(1)), Bind(<<"U", "R", "D">>, KeyActions(2))>>
SharedConfigs == {[timeout |-> Timeout, binds |-> SharedTable]}

InitShared == InitWith(SharedConfigs)

PublishShared == PublishFrom(SharedMoves, MaxPacket, MaxMoves)

NextShared == PublishShared \/ RecvMove \/ TimeoutFires \/ Tick

SpecShared == InitShared /\ [][NextShared]_vars

\* C18: when push_move has returned, the prefix is empty or some configured
\* trigger starts with it (so it is no longer than the longest such trigger).
C18_PrefixIsViable ==
    lastPush.valid =>
        \/ current_prefix = <<>>
        \/ \E i \in DOMAIN config.binds :
               /\ Len(current_prefix) <= Len(config.binds[i].trigger)
               /\ SubSeq(config.binds[i].trigger, 1, Len(current_prefix)) = current_prefix

\* the binds whose trigger is a proper starting part of t
ShorterBinds(t) ==
    {i \in DOMAIN config.binds :
        /\ Len(config.binds[i].trigger) < Len(t)
        /\ SubSeq(t, 1, Len(config.binds[i].trigger)) = config.binds[i].trigger}

\* C20: for a bind k that is the lowest-index bind with its trigger, no proper
\* starting part of which is a trigger: from Idle, after exactly the moves of
\* k's trigger and then a timeout, the actions of k have been emitted once and
\* nothing else has.
C20_TriggerFiresItsOwnBind ==
    \A k \in DOMAIN config.binds :
        (/\ k = Lowest(ExactBinds(config.binds[k].trigger))
         /\ ShorterBinds(config.binds[k].trigger) = {}
         /\ fed = config.binds[k].trigger \o <<"T">>)
            => emitted = ActionsOf(k)

====
